---- MODULE Spec2Model ----
(***************************************************************************)
(* Model of the LegalyzeAI backend: the two streaming pipelines of         *)
(* main.py (run_demo_pipeline, run_enhanced_pipeline_streamed), the agents  *)
(* and guardrails they run, the output normalisation, and the in-memory    *)
(* session store with its DELETE endpoint.                                 *)
(*                                                                         *)
(* A request is one run of a pipeline generator.  Its session id is the    *)
(* uuid4 drawn by the endpoint, so a request and its session share a name. *)
(* An action is the code a request runs between two suspension points at   *)
(* which it awaits a capability (Runner.run); the progress events yielded  *)
(* on the way are appended to the request's stream in order.               *)
(***************************************************************************)
EXTENDS Integers, Sequences, FiniteSets, TLC

\* ------------------------------------------------------------------------
\* Bounds of the model
\* ------------------------------------------------------------------------

\* longest risk list an analysis output carries
MaxRisks == 2

\* how many calls of the session endpoints are followed
MaxCalls == 2

\* the concurrent requests (session ids)
Requests == {"s1", "s2"}

\* ------------------------------------------------------------------------
\* Text.  A str is abstracted to its identity, its length and the length of
\* its strip(); a slice keeps the identity and cuts the length.
\* ------------------------------------------------------------------------

Min(a, b) == IF a < b THEN a ELSE b

Txt(id, len, strip) == [id |-> id, len |-> len, strip |-> strip, cut |-> FALSE]

\* a literal of the program; only its identity matters
Lit(id) == Txt(id, 1, 1)

EmptyStr == Txt("", 0, 0)

\* bool(s) of a str
Truthy(s) == s.len > 0

\* s[:n]
Slice(s, n) == [id |-> s.id, len |-> Min(s.len, n), strip |-> Min(s.strip, n),
                cut |-> s.cut \/ s.len > n]

\* ------------------------------------------------------------------------
\* Program constants
\* ------------------------------------------------------------------------

MinSummaryLen == 10
MinVerdictLen == 5
MinDisclaimerLen == 10
MinMessageLen == 5
MaxMessageLen == 2000
MinFriendlyLen == 20
SummaryPrefixLen == 200

DefaultDisclaimer ==
    Txt("This analysis is for informational purposes only and does not constitute legal advice. Please consult with a qualified attorney.", 128, 128)

DegradedDisclaimer ==
    Txt("This analysis is for informational purposes only and does not constitute legal advice.", 86, 86)

InputTripwireMessageEnhanced ==
    Lit("Your document contains sensitive information that cannot be processed.")
SystemErrorMessageEnhanced ==
    Lit("An error occurred during analysis. Please try again.")
UndeterminedMessageEnhanced ==
    Lit("I couldn't determine if that was a legal document. Please provide a clear legal document or ask a general question.")
InputTripwireMessageDemo ==
    Lit("This document contains sensitive information that cannot be processed for security reasons.")
OutputTripwireMessageDemo ==
    Lit("Analysis output validation failed. Please try again with a different document.")
SystemErrorMessageDemo ==
    Lit("Sorry, something went wrong during analysis. Please try uploading your document again.")
UndeterminedMessageDemo ==
    Lit("I couldn't identify this as a legal document. ...")
GenericFriendlyMessage ==
    Lit("Your document analysis is complete. Please review the detailed report below for key findings and recommendations.")

\* ------------------------------------------------------------------------
\* Data produced by the capabilities
\* ------------------------------------------------------------------------

RiskFields == {"description", "level", "category", "recommendation", "clause_reference"}

Severities == {"low", "medium", "high", "critical"}

\* a dict with the five RiskItem keys, as FinalOutput.model_dump() gives it
RiskDict(level, clause) ==
    [kind |-> "dict", keys |-> RiskFields, description |-> "risk", level |-> level,
     category |-> "Legal", recommendation |-> "review", clause_reference |-> clause]

\* the i-th risk of an analysis output: the levels a model writes vary
RiskPattern(i) ==
    CASE i % 3 = 1 -> RiskDict("High", "Clause 7")
      [] i % 3 = 2 -> RiskDict("unknown", "")
      [] OTHER     -> RiskDict("Severe", "Clause 9")

RiskLists == { [i \in 1..k |-> RiskPattern(i)] : k \in 0..MaxRisks }

\* an entry of a risks list that is not the dict of a RiskItem: kind is
\* "model" (has model_dump), "dict", "str" or "none"; keys are the keys it holds
RawRisk(kind, keys, level) ==
    [kind |-> kind, keys |-> keys, description |-> "risk", level |-> level,
     category |-> "Legal", recommendation |-> "review", clause_reference |-> "Clause 7"]

RawRisks ==
    { RawRisk("dict", RiskFields, "High"),
      RawRisk("dict", {"description"}, ""),
      RawRisk("model", RiskFields, "medium"),
      RawRisk("str", {}, ""),
      RawRisk("none", {}, "") }

EmptyList == [kind |-> "list", items |-> << >>]

\* the values a risks key or attribute holds: None, or a list
RiskValues ==
    { [kind |-> "none", items |-> << >>] }
    \cup { [kind |-> "list", items |-> rl] :
             rl \in UNION { [1..k -> RawRisks] : k \in 0..MaxRisks } }

ResultKeys == {"summary", "risks", "verdict", "disclaimer"}

GoodSummary  == Txt("summary", 150, 150)
LongSummary  == Txt("long summary", 250, 250)
ShortSummary == Txt("short summary", 12, 10)
GoodVerdict  == Txt("verdict", 6, 6)
ShortVerdict == Txt("short verdict", 5, 5)
GivenDisclaimer == Txt("model disclaimer", 11, 11)
ShortDisclaimer == Txt("short disclaimer", 12, 10)

\* the JSON the analysis model ends its run with; disclaimer may be left out
Json(summary, risks, verdict, has_disclaimer, disclaimer) ==
    [summary |-> summary, risks |-> [kind |-> "list", items |-> risks],
     verdict |-> verdict, has_disclaimer |-> has_disclaimer, disclaimer |-> disclaimer]

ModelJsons ==
    { Json(GoodSummary, rl, GoodVerdict, TRUE, GivenDisclaimer) : rl \in RiskLists }
    \cup { Json(s, << >>, GoodVerdict, FALSE, EmptyStr) : s \in {LongSummary, ShortSummary} }
    \cup { Json(GoodSummary, << >>, ShortVerdict, FALSE, EmptyStr) }
    \cup { Json(GoodSummary, << >>, GoodVerdict, TRUE, d) : d \in {EmptyStr, ShortDisclaimer} }

NoJson == Json(EmptyStr, << >>, EmptyStr, FALSE, EmptyStr)

\* FinalOutput(**json): pydantic fills the defaulted fields
FinalOutput(json) ==
    [kind |-> "model", keys |-> ResultKeys,
     summary |-> json.summary, risks |-> json.risks, verdict |-> json.verdict,
     disclaimer |-> IF json.has_disclaimer THEN json.disclaimer ELSE DefaultDisclaimer]

NoOutput == FinalOutput(NoJson)

\* a final_output that is not a FinalOutput: a mapping ("dict") or an object
\* with attributes ("object"); keys are the keys or attributes it has
LooseOutput(kind, keys, risks) ==
    [kind |-> kind, keys |-> keys, summary |-> GoodSummary, risks |-> risks,
     verdict |-> GoodVerdict, disclaimer |-> GivenDisclaimer]

\* the raw analysis results the normalisation code has branches for
RawResults ==
    { FinalOutput(j) : j \in ModelJsons }
    \cup { LooseOutput(kind, keys, risks) :
             kind \in {"dict", "object"},
             keys \in {ResultKeys, ResultKeys \ {"risks"}, ResultKeys \ {"disclaimer"}},
             risks \in RiskValues }

\* a FriendlyMessage; refusal: message.lower() contains one of the refusal phrases
FriendlyMessage(message, refusal) == [message |-> message, refusal |-> refusal]

\* what a capability call comes back with: a value, or an exception of the provider
Reply(value) == [ok |-> TRUE, value |-> value]
Failure(value) == [ok |-> FALSE, value |-> value]

FriendlyReplies ==
    { Reply(FriendlyMessage(Txt("friendly", 20, 20), FALSE)),
      Reply(FriendlyMessage(Txt("brief", 21, 19), FALSE)),
      Reply(FriendlyMessage(Txt("I cannot", 40, 40), TRUE)),
      Failure(FriendlyMessage(EmptyStr, FALSE)) }

CasualReplies ==
    { Reply(FriendlyMessage(Txt("chat", 30, 30), FALSE)),
      Reply(FriendlyMessage(Txt("I'm unable to", 30, 30), TRUE)),
      Failure(FriendlyMessage(EmptyStr, FALSE)) }

\* AgentDecision.action is a free str
DecisionActions == {"analyze_document", "casual_chat", "no_document_found", "maybe"}

\* SensitiveCheckOutput
Verdicts ==
    { [contains_sensitive_info |-> FALSE, reasoning |-> "clean"],
      [contains_sensitive_info |-> TRUE, reasoning |-> "has a passport number"],
      [contains_sensitive_info |-> TRUE, reasoning |-> "has a card number"] }

\* ------------------------------------------------------------------------
\* Guardrails
\* ------------------------------------------------------------------------

\* tripwire_triggered of sensitive_input_guardrail
sensitive_input_guardrail(verdict) == verdict.contains_sensitive_info

\* the validation without the disclaimer check
final_output_validation_guardrail_no_disclaimer(output) ==
    LET has_summary == Truthy(output.summary) /\ output.summary.strip > MinSummaryLen
        has_risks == output.risks.kind = "list"
        has_verdict == Truthy(output.verdict) /\ output.verdict.strip > MinVerdictLen
    IN ~(has_summary /\ has_risks /\ has_verdict)

\* an output guardrail that never trips
final_output_validation_guardrail_off(output) == FALSE

\* the validation with a verdict of five characters let through
final_output_validation_guardrail_inclusive(output) ==
    LET has_summary == Truthy(output.summary) /\ output.summary.strip > MinSummaryLen
        has_risks == output.risks.kind = "list"
        has_verdict == Truthy(output.verdict) /\ output.verdict.strip >= MinVerdictLen
        has_disclaimer ==
            Truthy(output.disclaimer) /\ output.disclaimer.strip > MinDisclaimerLen
    IN ~(has_summary /\ has_risks /\ has_verdict /\ has_disclaimer)

\* tripwire_triggered of final_output_validation_guardrail
final_output_validation_guardrail(output) ==
    LET has_summary == Truthy(output.summary) /\ output.summary.strip > MinSummaryLen
        has_risks == output.risks.kind = "list"
        has_verdict == Truthy(output.verdict) /\ output.verdict.strip > MinVerdictLen
        has_disclaimer ==
            Truthy(output.disclaimer) /\ output.disclaimer.strip > MinDisclaimerLen
    IN ~(has_summary /\ has_risks /\ has_verdict /\ has_disclaimer)

\* tripwire_triggered of friendly_message_validation_guardrail
friendly_message_validation_guardrail(output) ==
    LET has_message == Truthy(output.message) /\ output.message.strip > MinMessageLen
        is_not_too_long == output.message.len < MaxMessageLen
        contains_inappropriate == output.refusal
    IN ~(has_message /\ is_not_too_long /\ ~contains_inappropriate)

\* ------------------------------------------------------------------------
\* Output normalisation
\* ------------------------------------------------------------------------

\* str.lower() on the level strings
Lower(s) ==
    CASE s = "High" -> "high"
      [] s = "Severe" -> "severe"
      [] s = "CRITICAL" -> "critical"
      [] OTHER -> s

\* rd = r.model_dump() if hasattr(r, "model_dump") else dict(r); {} when that raises
ToDict(r) ==
    IF r.kind \in {"model", "dict"} THEN r
    ELSE [kind |-> "dict", keys |-> {}, description |-> "", level |-> "",
          category |-> "", recommendation |-> "", clause_reference |-> ""]

\* rd.get(key, default)
Get(rd, key, default) == IF key \in rd.keys THEN rd[key] ELSE default

\* one normalised risk of the enhanced pipeline
NormalizeRisk(r) ==
    LET rd == ToDict(r)
    IN [fields |-> RiskFields,
        description |-> Get(rd, "description", ""),
        level |-> Lower(Get(rd, "level", "unknown")),
        category |-> Get(rd, "category", ""),
        recommendation |-> Get(rd, "recommendation", ""),
        clause_reference |-> Get(rd, "clause_reference", "")]

\* one normalised risk of the demo pipeline: no clause_reference key
NormalizeRiskDemo(r) ==
    LET rd == ToDict(r)
    IN [fields |-> RiskFields \ {"clause_reference"},
        description |-> Get(rd, "description", ""),
        level |-> Lower(Get(rd, "level", "unknown")),
        category |-> Get(rd, "category", ""),
        recommendation |-> Get(rd, "recommendation", ""),
        clause_reference |-> ""]

\* analysis_dict of the enhanced pipeline: model_dump(), else dict(final_output),
\* else (dict() raised) the getattr defaults
AnalysisDict(final_output) ==
    IF final_output.kind \in {"model", "dict"} THEN final_output
    ELSE [kind |-> "dict", keys |-> ResultKeys,
          summary |-> Get(final_output, "summary", EmptyStr),
          risks |-> Get(final_output, "risks", EmptyList),
          verdict |-> Get(final_output, "verdict", EmptyStr),
          disclaimer |-> Get(final_output, "disclaimer", EmptyStr)]

\* analysis_dict of the demo pipeline: model_dump(), else the getattr
\* defaults; a mapping has none of the attributes
AnalysisDictDemo(final_output) ==
    IF final_output.kind = "model" THEN final_output
    ELSE LET attrs == IF final_output.kind = "object" THEN final_output.keys ELSE {}
         IN [kind |-> "dict", keys |-> ResultKeys,
             summary |-> IF "summary" \in attrs THEN final_output.summary ELSE EmptyStr,
             risks |-> IF "risks" \in attrs THEN final_output.risks ELSE EmptyList,
             verdict |-> IF "verdict" \in attrs THEN final_output.verdict ELSE EmptyStr,
             disclaimer |-> IF "disclaimer" \in attrs THEN final_output.disclaimer
                            ELSE EmptyStr]

\* the loop over analysis_dict["risks"]; iterating None raises
NormalizeRisks(risks) ==
    IF risks.kind = "list"
    THEN [raised |-> FALSE,
          items |-> [i \in 1..Len(risks.items) |-> NormalizeRisk(risks.items[i])]]
    ELSE [raised |-> TRUE, items |-> << >>]

NormalizeRisksDemo(risks) ==
    IF risks.kind = "list"
    THEN [raised |-> FALSE,
          items |-> [i \in 1..Len(risks.items) |-> NormalizeRiskDemo(risks.items[i])]]
    ELSE [raised |-> TRUE, items |-> << >>]

\* the analysis section of a terminal payload
Analysis(summary, risks, verdict, disclaimer) ==
    [summary |-> summary, risks |-> risks, verdict |-> verdict, disclaimer |-> disclaimer]

NoAnalysis == Analysis(EmptyStr, << >>, EmptyStr, EmptyStr)

\* the enhanced pipeline's conversion and risk loop, and the analysis section
\* final_result takes from analysis_dict; raised when the loop raises
NormalizedAnalysis(final_output) ==
    LET d == AnalysisDict(final_output)
        n == NormalizeRisks(Get(d, "risks", EmptyList))
    IN [raised |-> n.raised,
        analysis |-> Analysis(Get(d, "summary", EmptyStr), n.items,
                              Get(d, "verdict", EmptyStr), Get(d, "disclaimer", EmptyStr))]

\* a conversion whose except clause keeps what the try block had built
StructuredData_no_fallback(final_output) ==
    LET output == AnalysisDictDemo(final_output)
        n == NormalizeRisksDemo(Get(output, "risks", EmptyList))
    IN [confidence_score |-> 8]
       @@ Analysis(Get(output, "summary", EmptyStr), n.items,
                   Get(output, "verdict", EmptyStr), Get(output, "disclaimer", EmptyStr))

\* final_structured_data of the demo pipeline, with its degraded fallback;
\* confidence_score in tenths (0.8 is the default of FinalOutput)
StructuredData(final_output) ==
    LET output == AnalysisDictDemo(final_output)
        n == NormalizeRisksDemo(Get(output, "risks", EmptyList))
    IN IF n.raised
       THEN [confidence_score |-> 5]
            @@ Analysis(Lit("Document analysis completed but some details could not be extracted."),
                        << >>,
                        Lit("Please review the document manually for potential issues."),
                        DegradedDisclaimer)
       ELSE [confidence_score |-> 8]
            @@ Analysis(Get(output, "summary", EmptyStr), n.items,
                        Get(output, "verdict", EmptyStr), Get(output, "disclaimer", EmptyStr))

\* the fallback with the length test off by one
FriendlyFallback_off_by_one(friendly_message, summary) ==
    IF ~Truthy(friendly_message) \/ friendly_message.strip <= MinFriendlyLen
    THEN IF Truthy(summary)
         THEN [id |-> "Analysis complete. {summary[:200]}...",
               of |-> Slice(summary, SummaryPrefixLen)]
         ELSE [id |-> GenericFriendlyMessage.id, of |-> EmptyStr]
    ELSE [id |-> friendly_message.id, of |-> friendly_message]

\* the friendly message after the render call: the reply's message, or the fallback
FriendlyFallback(friendly_message, summary) ==
    IF ~Truthy(friendly_message) \/ friendly_message.strip < MinFriendlyLen
    THEN IF Truthy(summary)
         THEN [id |-> "Analysis complete. {summary[:200]}...",
               of |-> Slice(summary, SummaryPrefixLen)]
         ELSE [id |-> GenericFriendlyMessage.id, of |-> EmptyStr]
    ELSE [id |-> friendly_message.id, of |-> friendly_message]

NoFriendly == [id |-> "", of |-> EmptyStr]

\* ------------------------------------------------------------------------
\* Stream events
\* ------------------------------------------------------------------------

\* the object a terminal payload carries under its key
Body(key, type, message, details, has_analysis, analysis, friendly, session_id) ==
    [key |-> key, type |-> type, message |-> message, details |-> details,
     has_analysis |-> has_analysis, analysis |-> analysis,
     risk_count |-> Len(analysis.risks), friendly_message |-> friendly,
     session_id |-> session_id]

NoBody == Body("", "", EmptyStr, "", FALSE, NoAnalysis, NoFriendly, "")

\* create_status_message(step, status, message, progress)
create_status_message(step, status, message, progress) ==
    [kind |-> "progress", step |-> step, status |-> status, message |-> message,
     progress |-> progress, body |-> NoBody]

\* f"data: {json.dumps(payload)}\n\n" of a terminal payload
Terminal(body) ==
    [kind |-> "final", step |-> "", status |-> "", message |-> "", progress |-> 0,
     body |-> body]

\* "data: [DONE]\n\n"
Done ==
    [kind |-> "done", step |-> "", status |-> "", message |-> "", progress |-> 0,
     body |-> NoBody]

\* {"final_message": message} of the demo pipeline
FinalMessage(message) ==
    Terminal(Body("final_message", "", message, "", FALSE, NoAnalysis, NoFriendly, ""))

\* {"final_result": {"type": "error", ...}} of the enhanced pipeline
ErrorResult(message, details, session_id) ==
    Terminal(Body("final_result", "error", message, details, FALSE, NoAnalysis,
                  NoFriendly, session_id))

\* except clauses that yield the failed event and forget the terminal payload
EnhancedHandler_no_payload(exc, info, session_id) ==
    IF exc = "InputGuardrailTripwireTriggered"
    THEN << create_status_message("Security Check Failed", "failed",
                                  InputTripwireMessageEnhanced.id, 0),
            ErrorResult(InputTripwireMessageEnhanced, info, session_id) >>
    ELSE << create_status_message("System Error", "failed",
                                  SystemErrorMessageEnhanced.id, 0) >>

\* the except clauses of run_enhanced_pipeline_streamed: there is none for
\* OutputGuardrailTripwireTriggered, which falls to `except Exception`
EnhancedHandler(exc, info, session_id) ==
    IF exc = "InputGuardrailTripwireTriggered"
    THEN << create_status_message("Security Check Failed", "failed",
                                  InputTripwireMessageEnhanced.id, 0),
            ErrorResult(InputTripwireMessageEnhanced, info, session_id) >>
    ELSE << create_status_message("System Error", "failed",
                                  SystemErrorMessageEnhanced.id, 0),
            ErrorResult(SystemErrorMessageEnhanced, "", session_id) >>

\* except clauses whose last one yields the failed event twice
DemoHandler_failed_twice(exc, info, session_id) ==
    CASE exc = "InputGuardrailTripwireTriggered" ->
           << create_status_message("Security Check", "failed",
                                    InputTripwireMessageDemo.id, 0),
              FinalMessage(InputTripwireMessageDemo) >>
      [] exc = "OutputGuardrailTripwireTriggered" ->
           << create_status_message("Validation Check", "failed",
                                    OutputTripwireMessageDemo.id, 0),
              FinalMessage(OutputTripwireMessageDemo) >>
      [] OTHER ->
           << create_status_message("System Error", "failed",
                                    SystemErrorMessageDemo.id, 0),
              create_status_message("System Error", "failed",
                                    SystemErrorMessageDemo.id, 0),
              FinalMessage(SystemErrorMessageDemo) >>

\* the except clauses of run_demo_pipeline
DemoHandler(exc, info, session_id) ==
    CASE exc = "InputGuardrailTripwireTriggered" ->
           << create_status_message("Security Check", "failed",
                                    InputTripwireMessageDemo.id, 0),
              FinalMessage(InputTripwireMessageDemo) >>
      [] exc = "OutputGuardrailTripwireTriggered" ->
           << create_status_message("Validation Check", "failed",
                                    OutputTripwireMessageDemo.id, 0),
              FinalMessage(OutputTripwireMessageDemo) >>
      [] OTHER ->
           << create_status_message("System Error", "failed",
                                    SystemErrorMessageDemo.id, 0),
              FinalMessage(SystemErrorMessageDemo) >>

\* ------------------------------------------------------------------------
\* State
\* ------------------------------------------------------------------------

VARIABLES
    analysis_sessions,  \* main.analysis_sessions: session id -> record
    pc,                 \* where each request's generator is suspended
    variant,            \* which pipeline the request runs
    stream,             \* the events the request has yielded, in order
    calls,              \* per request, how often each agent has been run
    tools_done,         \* per request, the tools the analysis agent has called
    decision,           \* decision.action
    model_json,         \* what the analysis model ended its run with
    analysis_dict,      \* analysis_dict after the risks are normalised
    friendly_reply,     \* what the render call came back with
    guardrail_result,   \* what the last guardrail run returned
    raised,             \* the exception the request's try block ended with
    final_output,       \* a raw analysis result handed to the normalisation code
    normalized,         \* what the normalisation code made of final_output
    upload,             \* per request, the upload handler's locals and its response
    tmp_files,          \* the requests whose temporary file is on disk
    history             \* the calls of the session endpoints and their responses

vars == << analysis_sessions, pc, variant, stream, calls, tools_done, decision,
           model_json, analysis_dict, friendly_reply, guardrail_result, raised,
           final_output, normalized, upload, tmp_files, history >>

pipeline_vars == << analysis_sessions, pc, variant, stream, calls, tools_done, decision,
                    model_json, analysis_dict, friendly_reply, guardrail_result, raised >>

Agents == {"sensitive_check_agent", "main_agent", "analysis_agent",
           "friendly_agent", "casual_chat_agent"}

AnalysisTools == {"summarize_document", "detect_risks", "check_clause"}

\* a session record; present is FALSE for a key that is not in the dict
Record(status, has_result, result) ==
    [present |-> TRUE, status |-> status, has_result |-> has_result, result |-> result]

NoRecord == [present |-> FALSE, status |-> "", has_result |-> FALSE, result |-> NoBody]

\* a session update that loses the record
Completed_dropped(record, final_result) == NoRecord

\* a session update that sets the status and leaves the result for later
Completed_status_only(record, final_result) == [record EXCEPT !.status = "completed"]

\* analysis_sessions[session_id]["status"] = "completed"; ["result"] = final_result
Completed(record, final_result) ==
    [record EXCEPT !.status = "completed", !.has_result = TRUE, !.result = final_result]

NoRaise == [exc |-> "", at |-> ""]

NoReply == [called |-> FALSE, reply |-> Failure(FriendlyMessage(EmptyStr, FALSE))]

NoVerdict == [contains_sensitive_info |-> FALSE, reasoning |-> ""]

NotNormalized == [by |-> "", raised |-> FALSE, analysis |-> NoAnalysis]

\* ------------------------------------------------------------------------
\* Uploads
\* ------------------------------------------------------------------------

Endpoints == {"analyze_document", "demo_analysis"}

\* handlers that validate an upload; process_uploaded_file returns the text
UploadHandlers == Endpoints \cup {"process_uploaded_file"}

\* file.filename of the uploads tried; "" is a missing filename
Filenames == {"", "contract.txt", "scan.PDF", "notes.exe", "README"}

\* os.path.splitext(filename)[1].lower()
FileExt(filename) ==
    CASE filename = "contract.txt" -> ".txt"
      [] filename = "scan.PDF" -> ".pdf"
      [] filename = "notes.exe" -> ".exe"
      [] OTHER -> ""

\* SUPPORTED_TEXT_EXTS | SUPPORTED_DOC_EXTS | SUPPORTED_PDF_EXTS | SUPPORTED_IMAGE_EXTS
ALL_SUPPORTED_EXTS == {".txt", ".docx", ".pdf", ".png", ".jpg", ".jpeg", ".webp", ".tiff"}

\* 10 * 1024 * 1024
MaxUploadBytes == 10 * 1024 * 1024

\* len(file_content) of the uploads tried
FileSizes == {0, MaxUploadBytes - 1, MaxUploadBytes, MaxUploadBytes + 1}

MinTextLen == 10

\* the size test that also turns away a file of exactly the limit
TooLarge_inclusive(size) == size >= MaxUploadBytes

\* len(file_content) > 10 * 1024 * 1024
TooLarge(size) == size > MaxUploadBytes

NoneText == Txt("None", 0, 0)

\* what load_text_from_path(tmp_path) comes back with
ExtractedTexts ==
    { Reply(NoneText), Reply(EmptyStr), Reply(Txt("blank", 4, 0)),
      Reply(Txt("text of 9", 12, 9)), Reply(Txt("text of 10", 10, 10)),
      Reply(Txt("document", 5000, 4990)), Failure(EmptyStr) }

\* a text test that lets a text of 9 stripped characters through
Meaningless_below_nine(user_text) == ~Truthy(user_text) \/ user_text.strip < MinTextLen - 1

\* not user_text or len(user_text.strip()) < 10
Meaningless(user_text) == ~Truthy(user_text) \/ user_text.strip < MinTextLen

\* the locals of an upload handler and the response it ends with; at is the
\* handler's position, status 0 while it has not answered
Upload(at, handler, filename, size, written, extracted, status, detail) ==
    [at |-> at, handler |-> handler, filename |-> filename, size |-> size,
     written |-> written, extracted |-> extracted, status |-> status, detail |-> detail]

NoUpload == Upload("none", "", "", 0, FALSE, Failure(EmptyStr), 0, "")

\* an upload that passed every check of its endpoint
AcceptedUpload(handler) ==
    Upload("answered", handler, "contract.txt", 0, TRUE,
           Reply(Txt("document", 5000, 4990)), 200, "")

\* the uploads of `accepted` have been answered with a StreamingResponse
Uploaded(accepted) ==
    /\ upload \in [Requests -> {AcceptedUpload(e) : e \in Endpoints} \cup {NoUpload}]
    /\ \A r \in Requests : r \in accepted <=> upload[r] # NoUpload
    /\ tmp_files = {}

\* the state in which the requests of `accepted` have passed the upload
\* checks of their endpoint and their generators have not run yet
Accepted(accepted) ==
    /\ analysis_sessions = [s \in Requests |-> NoRecord]
    /\ pc = [r \in Requests |-> IF r \in accepted THEN "idle" ELSE "off"]
    /\ guardrail_result = [r \in Requests |-> NoVerdict]
    /\ variant = [r \in Requests |-> ""]
    /\ stream = [r \in Requests |-> << >>]
    /\ calls = [r \in Requests |-> [a \in Agents |-> 0]]
    /\ tools_done = [r \in Requests |-> {}]
    /\ decision = [r \in Requests |-> ""]
    /\ model_json = [r \in Requests |-> NoJson]
    /\ analysis_dict = [r \in Requests |-> NoAnalysis]
    /\ friendly_reply = [r \in Requests |-> NoReply]
    /\ raised = [r \in Requests |-> NoRaise]
    /\ history = << >>

\* one request, and the session endpoints
Init ==
    /\ Accepted({"s1"})
    /\ Uploaded({"s1"})
    /\ final_output = NoOutput
    /\ normalized = NotNormalized

\* two requests on the event loop
InitConcurrent ==
    /\ Accepted(Requests)
    /\ Uploaded(Requests)
    /\ final_output = NoOutput
    /\ normalized = NotNormalized

\* the normalisation code of either pipeline, about to run on a raw result
InitNormalize ==
    /\ Accepted({})
    /\ Uploaded({})
    /\ final_output \in RawResults
    /\ normalized = NotNormalized

\* ------------------------------------------------------------------------
\* Steps shared by the pipelines
\* ------------------------------------------------------------------------

Handler(v, exc, info, session_id) ==
    IF v = "enhanced" THEN EnhancedHandler(exc, info, session_id)
    ELSE DemoHandler(exc, info, session_id)

\* an event queue shared by all the requests
Yield_shared(r, events) == stream' = [t \in Requests |-> stream[t] \o events]

\* the request yields events, then awaits Runner.run of agent a
Yield(r, events) == stream' = [stream EXCEPT ![r] = stream[r] \o events]

\* an invocation that starts the renderer alongside the agent asked for
Invoke_and_render(r, a) ==
    calls' = [calls EXCEPT ![r][a] = @ + 1, ![r]["friendly_agent"] = @ + 1]

Invoke(r, a) == calls' = [calls EXCEPT ![r][a] = calls[r][a] + 1]

\* an exception after which the generator is never resumed
Abort_hangs(r, events, exc, info) ==
    /\ Yield(r, events \o Handler(variant[r], exc, info, r))
    /\ raised' = [raised EXCEPT ![r] = [exc |-> exc, at |-> pc[r]]]
    /\ pc' = [pc EXCEPT ![r] = "hung"]

\* an exception leaves the try block: the matching except clause yields the
\* failed event and the terminal payload, and control reaches the last yield
Abort(r, events, exc, info) ==
    /\ Yield(r, events \o Handler(variant[r], exc, info, r))
    /\ raised' = [raised EXCEPT ![r] = [exc |-> exc, at |-> pc[r]]]
    /\ pc' = [pc EXCEPT ![r] = "sentinel"]

\* the events up to the first Runner.run
ReceivedEvents(v) ==
    IF v = "enhanced"
    THEN << create_status_message("Document Received", "completed", "Successfully processed your document", 10),
            create_status_message("Text Extraction", "completed", "Extracted words from pages", 20),
            create_status_message("Document Classification", "processing", "Analyzing document type and structure...", 30) >>
    ELSE << create_status_message("Document Processing", "completed", "Successfully received", 0),
            create_status_message("Text Extraction", "completed", "Extracted words from document", 0),
            create_status_message("Document Analysis", "processing", "Analyzing document type and structure...", 0) >>

\* the events between the classifier's return and the branch's first await
DecisionEvents(v, action) ==
    IF v = "enhanced"
    THEN << create_status_message("Document Classification", "completed", action, 40) >>
         \o (CASE action = "analyze_document" ->
                    << create_status_message("AI Analysis", "processing", "Our AI legal experts are analyzing your document...", 50) >>
               [] action = "casual_chat" ->
                    << create_status_message("Processing Query", "processing", "Understanding your question...", 70) >>
               [] OTHER -> << >>)
    ELSE << create_status_message("Document Analysis", "completed", action, 0) >>
         \o (CASE action = "analyze_document" ->
                    << create_status_message("AI Analysis", "processing", "Running comprehensive legal analysis...", 0) >>
               [] action = "casual_chat" ->
                    << create_status_message("Response Generation", "processing", "Generating response...", 0) >>
               [] OTHER ->
                    << create_status_message("Processing Complete", "completed", "Analysis finished - document type unclear", 0) >>)

\* an undetermined classification reported as a system error
UndeterminedResult_system_error(v, session_id) ==
    IF v = "enhanced"
    THEN ErrorResult(SystemErrorMessageEnhanced, "", session_id)
    ELSE FinalMessage(SystemErrorMessageDemo)

\* the terminal payload of the branch that runs no further capability
UndeterminedResult(v, session_id) ==
    IF v = "enhanced"
    THEN ErrorResult(UndeterminedMessageEnhanced, "", session_id)
    ELSE FinalMessage(UndeterminedMessageDemo)

\* ------------------------------------------------------------------------
\* The pipelines
\* ------------------------------------------------------------------------

\* a pipeline that keeps every request's record under one key
StartEnhanced_shared_key(r) ==
    /\ pc[r] = "idle"
    /\ upload[r].handler = "analyze_document"
    /\ UNCHANGED << final_output, normalized, upload, tmp_files, history >>
    /\ variant' = [variant EXCEPT ![r] = "enhanced"]
    /\ analysis_sessions' =
           [analysis_sessions EXCEPT !["s1"] = Record("processing", FALSE, NoBody)]
    /\ Yield(r, ReceivedEvents("enhanced"))
    /\ Invoke(r, "sensitive_check_agent")
    /\ pc' = [pc EXCEPT ![r] = "main_guardrail"]
    /\ UNCHANGED << tools_done, decision, model_json, analysis_dict, friendly_reply,
                    guardrail_result, raised >>

\* run_enhanced_pipeline_streamed up to `await Runner.run(main_agent, ...)`,
\* whose input guardrail runs the sensitive_check_agent first
StartEnhanced(r) ==
    /\ pc[r] = "idle"
    /\ upload[r].handler = "analyze_document"
    /\ UNCHANGED << final_output, normalized, upload, tmp_files, history >>
    /\ variant' = [variant EXCEPT ![r] = "enhanced"]
    /\ analysis_sessions' =
           [analysis_sessions EXCEPT ![r] = Record("processing", FALSE, NoBody)]
    /\ Yield(r, ReceivedEvents("enhanced"))
    /\ Invoke(r, "sensitive_check_agent")
    /\ pc' = [pc EXCEPT ![r] = "main_guardrail"]
    /\ UNCHANGED << tools_done, decision, model_json, analysis_dict, friendly_reply,
                    guardrail_result, raised >>

\* a demo pipeline that stores a session record
StartDemo_with_session(r) ==
    /\ pc[r] = "idle"
    /\ upload[r].handler = "demo_analysis"
    /\ UNCHANGED << final_output, normalized, upload, tmp_files, history >>
    /\ variant' = [variant EXCEPT ![r] = "demo"]
    /\ analysis_sessions' =
           [analysis_sessions EXCEPT ![r] = Record("processing", FALSE, NoBody)]
    /\ Yield(r, ReceivedEvents("demo"))
    /\ Invoke(r, "sensitive_check_agent")
    /\ pc' = [pc EXCEPT ![r] = "main_guardrail"]
    /\ UNCHANGED << tools_done, decision, model_json, analysis_dict,
                    friendly_reply, guardrail_result, raised >>

\* run_demo_pipeline up to `await Runner.run(main_agent, ...)`
StartDemo(r) ==
    /\ pc[r] = "idle"
    /\ upload[r].handler = "demo_analysis"
    /\ UNCHANGED << final_output, normalized, upload, tmp_files, history >>
    /\ variant' = [variant EXCEPT ![r] = "demo"]
    /\ Yield(r, ReceivedEvents("demo"))
    /\ Invoke(r, "sensitive_check_agent")
    /\ pc' = [pc EXCEPT ![r] = "main_guardrail"]
    /\ UNCHANGED << analysis_sessions, tools_done, decision, model_json, analysis_dict,
                    friendly_reply, guardrail_result, raised >>

\* an input guardrail that always hands over to the classifier
Guarded_classifier(label) == "main_agent"

\* the guarded agent of an input guardrail
Guarded(label) == IF label = "main_guardrail" THEN "main_agent" ELSE "analysis_agent"

\* sensitive_input_guardrail returns inside Runner.run of main_agent or of
\* analysis_agent: a tripwire raises, a pass lets the guarded agent run
InputGuardrail(r) ==
    /\ pc[r] \in {"main_guardrail", "analysis_guardrail"}
    /\ UNCHANGED << final_output, normalized, upload, tmp_files, history >>
    /\ \E reply \in {Reply(v) : v \in Verdicts} \cup {Failure(NoVerdict)} :
         IF ~reply.ok
         THEN /\ Abort(r, << >>, "Exception", "")
              /\ UNCHANGED << calls, guardrail_result >>
         ELSE /\ guardrail_result' = [guardrail_result EXCEPT ![r] = reply.value]
              /\ IF sensitive_input_guardrail(reply.value)
                 THEN /\ Abort(r, << >>, "InputGuardrailTripwireTriggered",
                               reply.value.reasoning)
                      /\ UNCHANGED calls
                 ELSE /\ Invoke(r, Guarded(pc[r]))
                      /\ pc' = [pc EXCEPT ![r] = Guarded(pc[r])]
                      /\ UNCHANGED << stream, raised >>
    /\ UNCHANGED << analysis_sessions, variant, tools_done, decision, model_json,
                    analysis_dict, friendly_reply >>

\* the reasoning loop of analysis_agent calls one of its three tools; which
\* tools it calls, and in which order, is the model's choice (a repeated call
\* of a tool leaves the set of tools that have produced an output unchanged)
ToolCall(r) ==
    /\ pc[r] = "analysis_agent"
    /\ UNCHANGED << final_output, normalized, upload, tmp_files, history >>
    /\ \E t \in AnalysisTools \ tools_done[r] :
         tools_done' = [tools_done EXCEPT ![r] = tools_done[r] \cup {t}]
    /\ UNCHANGED << analysis_sessions, pc, variant, stream, calls, decision, model_json,
                    analysis_dict, friendly_reply, guardrail_result, raised >>

\* Runner.run(main_agent, ...) returns; the branch on decision.action runs up
\* to its first await, or to the terminal payload when it has none
MainAgentReturn(r) ==
    /\ pc[r] = "main_agent"
    /\ UNCHANGED << final_output, normalized, upload, tmp_files, history >>
    /\ \E reply \in {Reply(a) : a \in DecisionActions} \cup {Failure("")} :
         IF ~reply.ok
         THEN /\ Abort(r, << >>, "Exception", "")
              /\ UNCHANGED << calls, decision >>
         ELSE /\ decision' = [decision EXCEPT ![r] = reply.value]
              /\ raised' = raised
              /\ CASE reply.value = "analyze_document" ->
                        /\ Yield(r, DecisionEvents(variant[r], reply.value))
                        /\ Invoke(r, "sensitive_check_agent")
                        /\ pc' = [pc EXCEPT ![r] = "analysis_guardrail"]
                   [] reply.value = "casual_chat" ->
                        /\ Yield(r, DecisionEvents(variant[r], reply.value))
                        /\ Invoke(r, "casual_chat_agent")
                        /\ pc' = [pc EXCEPT ![r] = "casual_chat_agent"]
                   [] OTHER ->
                        /\ Yield(r, DecisionEvents(variant[r], reply.value)
                                    \o << UndeterminedResult(variant[r], r) >>)
                        /\ pc' = [pc EXCEPT ![r] = "sentinel"]
                        /\ UNCHANGED calls
    /\ UNCHANGED << analysis_sessions, variant, tools_done, model_json, analysis_dict,
                    friendly_reply, guardrail_result >>

\* the events between the analysis agent's return and the next await
AnalysisEvents(v) ==
    IF v = "enhanced"
    THEN << create_status_message("AI Analysis", "completed", "Document analysis completed successfully", 80),
            create_status_message("Generating Report", "processing", "Creating your personalized legal analysis report...", 90) >>
    ELSE << create_status_message("AI Analysis", "completed", "Legal analysis completed successfully", 0),
            create_status_message("Report Generation", "processing", "Creating your personalized report...", 0) >>

\* Runner.run(analysis_agent, ...) returns: the output guardrail validates the
\* FinalOutput; the enhanced pipeline normalises it and awaits the friendly
\* agent, the demo pipeline normalises it and yields structured_data
AnalysisAgentReturn(r) ==
    /\ pc[r] = "analysis_agent"
    /\ UNCHANGED << final_output, normalized, upload, tmp_files, history >>
    /\ \E reply \in {Reply(j) : j \in ModelJsons} \cup {Failure(NoJson)} :
         LET output == FinalOutput(reply.value)
             n == NormalizedAnalysis(output)
         IN /\ model_json' = [model_json EXCEPT ![r] = reply.value]
            /\ IF ~reply.ok
               THEN /\ Abort(r, << >>, "Exception", "")
                    /\ UNCHANGED << calls, analysis_dict >>
               ELSE IF final_output_validation_guardrail(output)
               THEN /\ Abort(r, << >>, "OutputGuardrailTripwireTriggered", "")
                    /\ UNCHANGED << calls, analysis_dict >>
               ELSE IF variant[r] = "demo"
               THEN /\ Yield(r, AnalysisEvents("demo")
                                \o << create_status_message("Report Generation", "completed", "Your analysis report is ready!", 0),
                                      Terminal(Body("structured_data", "", EmptyStr, "", TRUE,
                                                    StructuredData(output), NoFriendly, "")) >>)
                    /\ pc' = [pc EXCEPT ![r] = "sentinel"]
                    /\ UNCHANGED << calls, analysis_dict, raised >>
               ELSE IF n.raised
               THEN /\ Abort(r, AnalysisEvents("enhanced"), "Exception", "")
                    /\ UNCHANGED << calls, analysis_dict >>
               ELSE /\ Yield(r, AnalysisEvents("enhanced"))
                    /\ analysis_dict' =
                           [analysis_dict EXCEPT ![r] = n.analysis]
                    /\ Invoke(r, "friendly_agent")
                    /\ pc' = [pc EXCEPT ![r] = "friendly_agent"]
                    /\ raised' = raised
    /\ UNCHANGED << analysis_sessions, variant, tools_done, decision, friendly_reply,
                    guardrail_result >>

\* friendly_message after the try around Runner.run(friendly_agent, ...): the
\* reply's message, or "" when the call or its output guardrail raised
FriendlyMessageOf(reply) ==
    IF reply.ok /\ ~friendly_message_validation_guardrail(reply.value)
    THEN reply.value.message
    ELSE EmptyStr

\* a final_result that names no session
LegalAnalysisResult_no_session(analysis, friendly, session_id) ==
    Body("final_result", "legal_analysis", EmptyStr, "", TRUE, analysis, friendly, "")

\* final_result of the analyze branch
LegalAnalysisResult(analysis, friendly, session_id) ==
    Body("final_result", "legal_analysis", EmptyStr, "", TRUE, analysis, friendly, session_id)

\* Runner.run(friendly_agent, ...) returns or raises; the fallback, the
\* final_result, the session update and the last two events of the branch.
\* analysis_sessions[session_id] raises KeyError when the record is gone
FriendlyAgentReturn(r) ==
    /\ pc[r] = "friendly_agent"
    /\ UNCHANGED << final_output, normalized, upload, tmp_files, history >>
    /\ \E reply \in FriendlyReplies :
         LET friendly_message ==
                 FriendlyFallback(FriendlyMessageOf(reply), analysis_dict[r].summary)
             final_result == LegalAnalysisResult(analysis_dict[r], friendly_message, r)
         IN /\ friendly_reply' = [friendly_reply EXCEPT ![r] = [called |-> TRUE, reply |-> reply]]
            /\ IF analysis_sessions[r].present
               THEN /\ analysis_sessions' =
                           [analysis_sessions EXCEPT ![r] = Completed(@, final_result)]
                    /\ Yield(r, << create_status_message("Report Ready", "completed", "Your legal analysis report is ready!", 100),
                                   Terminal(final_result) >>)
                    /\ pc' = [pc EXCEPT ![r] = "sentinel"]
                    /\ raised' = raised
               ELSE /\ Abort(r, << >>, "Exception", "")
                    /\ UNCHANGED analysis_sessions
    /\ UNCHANGED << variant, calls, tools_done, decision, model_json, analysis_dict,
                    guardrail_result >>

\* a casual-chat payload that carries an analysis section
CasualResult_with_analysis(v, message, session_id) ==
    << create_status_message("Response Ready", "completed", "Generated response to your question", 100),
       Terminal(Body("final_result", "casual_response", message, "", TRUE,
                     Analysis(GoodSummary, << RiskPattern(1) >>, GoodVerdict, DefaultDisclaimer),
                     NoFriendly, session_id)) >>

\* the terminal payload of the casual-chat branch
CasualResult(v, message, session_id) ==
    IF v = "enhanced"
    THEN << create_status_message("Response Ready", "completed", "Generated response to your question", 100),
            Terminal(Body("final_result", "casual_response", message, "", FALSE,
                          NoAnalysis, NoFriendly, session_id)) >>
    ELSE << create_status_message("Response Generation", "completed", "Response ready!", 0),
            FinalMessage(message) >>

\* Runner.run(casual_chat_agent, ...) returns or raises
CasualChatReturn(r) ==
    /\ pc[r] = "casual_chat_agent"
    /\ UNCHANGED << final_output, normalized, upload, tmp_files, history >>
    /\ \E reply \in CasualReplies :
         IF ~reply.ok
         THEN Abort(r, << >>, "Exception", "")
         ELSE IF friendly_message_validation_guardrail(reply.value)
         THEN Abort(r, << >>, "OutputGuardrailTripwireTriggered", "")
         ELSE /\ Yield(r, CasualResult(variant[r], reply.value.message, r))
              /\ pc' = [pc EXCEPT ![r] = "sentinel"]
              /\ raised' = raised
    /\ UNCHANGED << analysis_sessions, variant, calls, tools_done, decision, model_json,
                    analysis_dict, friendly_reply, guardrail_result >>

\* yield "data: [DONE]\n\n"
Sentinel(r) ==
    /\ pc[r] = "sentinel"
    /\ UNCHANGED << final_output, normalized, upload, tmp_files, history >>
    /\ Yield(r, << Done >>)
    /\ pc' = [pc EXCEPT ![r] = "done"]
    /\ UNCHANGED << analysis_sessions, variant, calls, tools_done, decision, model_json,
                    analysis_dict, friendly_reply, guardrail_result, raised >>

\* ------------------------------------------------------------------------
\* The session endpoints
\* ------------------------------------------------------------------------

\* DELETE /session/{session_id} of a stored session
delete_session(s) ==
    /\ analysis_sessions[s].present
    /\ UNCHANGED << final_output, normalized, upload, tmp_files, history >>
    /\ analysis_sessions' = [analysis_sessions EXCEPT ![s] = NoRecord]
    /\ UNCHANGED << pc, variant, stream, calls, tools_done, decision, model_json,
                    analysis_dict, friendly_reply, guardrail_result, raised >>

\* a call of a session endpoint: the response, the record of the id before
\* and after the call, and whether the other records were left as they were
SessionCall(op, id, status, body, before, after, others_kept) ==
    [op |-> op, id |-> id, status |-> status, body |-> body, before |-> before,
     after |-> after, others_kept |-> others_kept]

\* a GET that creates the record it does not find
get_session_status_creating(s) ==
    /\ Len(history) < MaxCalls
    /\ analysis_sessions' = [analysis_sessions EXCEPT ![s] =
           IF @.present THEN @ ELSE Record("processing", FALSE, NoBody)]
    /\ history' = Append(history,
           IF analysis_sessions[s].present
           THEN SessionCall("GET", s, 200, analysis_sessions[s], analysis_sessions[s],
                            analysis_sessions'[s], TRUE)
           ELSE SessionCall("GET", s, 404, NoRecord, analysis_sessions[s],
                            analysis_sessions'[s], TRUE))
    /\ UNCHANGED << pc, variant, stream, calls, tools_done, decision, model_json,
                    analysis_dict, friendly_reply, guardrail_result, raised,
                    final_output, normalized, upload, tmp_files >>

\* GET /session/{session_id}
get_session_status(s) ==
    /\ Len(history) < MaxCalls
    /\ history' = Append(history,
           IF analysis_sessions[s].present
           THEN SessionCall("GET", s, 200, analysis_sessions[s], analysis_sessions[s],
                            analysis_sessions[s], TRUE)
           ELSE SessionCall("GET", s, 404, NoRecord, analysis_sessions[s],
                            analysis_sessions[s], TRUE))
    /\ UNCHANGED << pipeline_vars, final_output, normalized, upload, tmp_files >>

\* a DELETE that answers 404 only when the store is empty
delete_session_logged_any(s) ==
    /\ Len(history) < MaxCalls
    /\ analysis_sessions' = [analysis_sessions EXCEPT ![s] = NoRecord]
    /\ history' = Append(history,
           SessionCall("DELETE", s,
                       IF \E t \in Requests : analysis_sessions[t].present THEN 200 ELSE 404,
                       NoRecord, analysis_sessions[s], NoRecord, TRUE))
    /\ UNCHANGED << pc, variant, stream, calls, tools_done, decision, model_json,
                    analysis_dict, friendly_reply, guardrail_result, raised,
                    final_output, normalized, upload, tmp_files >>

\* DELETE /session/{session_id}, the 404 of an unknown id included
delete_session_logged(s) ==
    /\ Len(history) < MaxCalls
    /\ analysis_sessions' =
           IF analysis_sessions[s].present
           THEN [analysis_sessions EXCEPT ![s] = NoRecord]
           ELSE analysis_sessions
    /\ history' = Append(history,
           SessionCall("DELETE", s, IF analysis_sessions[s].present THEN 200 ELSE 404,
                       NoRecord, analysis_sessions[s], analysis_sessions'[s],
                       \A t \in Requests \ {s} : analysis_sessions'[t] = analysis_sessions[t]))
    /\ UNCHANGED << pc, variant, stream, calls, tools_done, decision, model_json,
                    analysis_dict, friendly_reply, guardrail_result, raised,
                    final_output, normalized, upload, tmp_files >>

Next ==
    \E r \in Requests :
        \/ StartEnhanced(r)
        \/ StartDemo(r)
        \/ InputGuardrail(r)
        \/ ToolCall(r)
        \/ MainAgentReturn(r)
        \/ AnalysisAgentReturn(r)
        \/ FriendlyAgentReturn(r)
        \/ CasualChatReturn(r)
        \/ Sentinel(r)
        \/ delete_session(r)

Spec == Init /\ [][Next]_vars

SpecConcurrent == InitConcurrent /\ [][Next]_vars

\* the session endpoints called while a request is served
NextSessions ==
    \/ \E s \in Requests : get_session_status(s) \/ delete_session_logged(s)
    \/ Next

SpecSessions == Init /\ [][NextSessions]_vars

\* the steps of request r that the event loop takes once the awaited
\* Runner.run has returned or raised, and the resumption after a yield
Resume(r) ==
    \/ InputGuardrail(r)
    \/ MainAgentReturn(r)
    \/ AnalysisAgentReturn(r)
    \/ FriendlyAgentReturn(r)
    \/ CasualChatReturn(r)
    \/ Sentinel(r)

\* every awaited capability call returns or raises, and the response
\* iterates the generator to its end
SpecLive == Init /\ [][Next]_vars /\ \A r \in Requests : WF_vars(Resume(r))

\* an upload arrives at handler h: its filename and content, and what the
\* file system and the extractor will answer when the handler gets to them
InitUpload ==
    /\ Accepted({})
    /\ upload \in { [r \in Requests |->
                        IF r = "s1" THEN Upload("new", h, filename, size, written, extracted, 0, "")
                        ELSE NoUpload] :
                     h \in UploadHandlers, filename \in Filenames, size \in FileSizes,
                     written \in BOOLEAN, extracted \in ExtractedTexts }
    /\ tmp_files = {}
    /\ final_output = NoOutput
    /\ normalized = NotNormalized

\* raise HTTPException(status_code, detail)
HTTPException(u, status, detail) ==
    [u EXCEPT !.at = "answered", !.status = status, !.detail = detail]

\* the handler up to `await file.read()`: the filename and extension checks
ValidateName(r) ==
    /\ upload[r].at = "new"
    /\ upload' = [upload EXCEPT ![r] =
           IF upload[r].filename = ""
           THEN HTTPException(@, 400, "No filename provided")
           ELSE IF FileExt(upload[r].filename) \notin ALL_SUPPORTED_EXTS
           THEN HTTPException(@, 400, "Unsupported file type")
           ELSE [@ EXCEPT !.at = "read"]]
    /\ UNCHANGED << pipeline_vars, final_output, normalized, tmp_files, history >>

\* file.read() returns: the size check, the temporary file, the extraction,
\* the finally clause, and the response. tmp_path is bound only after
\* tmp.write returned, and the finally clause unlinks only a bound tmp_path
ExtractText(r) ==
    /\ upload[r].at = "read"
    /\ LET u == upload[r]
       IN IF TooLarge(u.size)
          THEN /\ upload' = [upload EXCEPT ![r] =
                      HTTPException(@, 413, "File too large. Maximum size: 10MB")]
               /\ UNCHANGED << tmp_files, pc >>
          ELSE IF ~u.written
          THEN /\ upload' = [upload EXCEPT ![r] =
                      HTTPException(@, 500, "Error processing file")]
               /\ tmp_files' = tmp_files \cup {r}
               /\ pc' = pc
          ELSE /\ tmp_files' = tmp_files
               /\ IF ~u.extracted.ok
                  THEN /\ upload' = [upload EXCEPT ![r] =
                              HTTPException(@, 500, "Error processing file")]
                       /\ pc' = pc
                  ELSE IF Meaningless(u.extracted.value)
                  THEN /\ upload' = [upload EXCEPT ![r] =
                              HTTPException(@, 400, "Could not extract meaningful text from the file.")]
                       /\ pc' = pc
                  ELSE /\ upload' = [upload EXCEPT ![r] = [@ EXCEPT !.at = "answered", !.status = 200]]
                       /\ pc' = [pc EXCEPT ![r] =
                                     IF u.handler \in Endpoints THEN "idle" ELSE "off"]
    /\ UNCHANGED << analysis_sessions, variant, stream, calls, tools_done, decision,
                    model_json, analysis_dict, friendly_reply, guardrail_result, raised,
                    final_output, normalized, history >>

\* len(text.strip()) >= 30 of load_text_from_path
MinDirectPdfLen == 30

\* load_text_from_path(path) for a text file and for a PDF: direct is what
\* extract_text_from_txt or extract_text_from_pdf returns, ocr what
\* try_ocr_from_scanned_pdf returns ("" when OCR is unavailable or fails)
load_text_from_path(ext, direct, ocr) ==
    IF ext = ".pdf"
    THEN IF Truthy(direct) /\ direct.strip >= MinDirectPdfLen THEN direct ELSE ocr
    ELSE direct

\* an upload has been read and written to its temporary file; what direct
\* extraction and OCR will give for it
InitLoadText ==
    /\ Accepted({})
    /\ upload \in { [r \in Requests |->
                        IF r = "s1"
                        THEN Upload("read", h, filename, 0, TRUE,
                                    [ok |-> TRUE, value |-> NoneText, direct |-> direct,
                                     ocr |-> ocr], 0, "")
                        ELSE NoUpload] :
                     h \in UploadHandlers, filename \in {"contract.txt", "scan.PDF"},
                     direct \in { EmptyStr, Txt("text of 9", 9, 9), Txt("text of 10", 10, 10),
                                  Txt("text of 29", MinDirectPdfLen - 1, MinDirectPdfLen - 1),
                                  Txt("text of 30", MinDirectPdfLen, MinDirectPdfLen),
                                  Txt("document", 4990, 4990) },
                     ocr \in { EmptyStr, Txt("ocr of 9", 9, 9), Txt("ocr of 10", 10, 10),
                               Txt("ocr of 40", 40, 40), Txt("ocr document", 4990, 4990) } }
    /\ tmp_files = {}
    /\ final_output = NoOutput
    /\ normalized = NotNormalized

\* user_text = load_text_from_path(tmp_path), the text check, the finally
\* clause and the response of the handler
LoadText(r) ==
    /\ upload[r].at = "read"
    /\ LET u == upload[r]
           user_text == load_text_from_path(FileExt(u.filename), u.extracted.direct,
                                            u.extracted.ocr)
       IN /\ upload' = [upload EXCEPT ![r] =
                 IF Meaningless(user_text)
                 THEN HTTPException([@ EXCEPT !.extracted.value = user_text], 400,
                                    "Could not extract meaningful text from the file.")
                 ELSE [@ EXCEPT !.extracted.value = user_text,
                                !.at = "answered", !.status = 200]]
          /\ pc' = [pc EXCEPT ![r] =
                        IF Meaningless(user_text) THEN pc[r]
                        ELSE IF u.handler \in Endpoints THEN "idle" ELSE "off"]
    /\ UNCHANGED << analysis_sessions, variant, stream, calls, tools_done, decision,
                    model_json, analysis_dict, friendly_reply, guardrail_result, raised,
                    final_output, normalized, tmp_files, history >>

NextLoadText == \E r \in Requests : LoadText(r)

SpecLoadText == InitLoadText /\ [][NextLoadText]_vars

\* the upload handlers and the pipelines they start
NextUpload ==
    \/ \E r \in Requests : ValidateName(r) \/ ExtractText(r)
    \/ Next

SpecUpload == InitUpload /\ [][NextUpload]_vars

\* the conversion, the risk loop and the analysis section of the enhanced
\* pipeline, run on final_output
NormalizeEnhanced ==
    /\ normalized = NotNormalized
    /\ normalized' = [by |-> "enhanced"] @@ NormalizedAnalysis(final_output)
    /\ UNCHANGED << final_output, pipeline_vars, upload, tmp_files, history >>

\* the try block of the demo pipeline that builds final_structured_data,
\* and the two events the analyze branch yields after it
NormalizeDemo ==
    /\ normalized = NotNormalized
    /\ normalized' = [by |-> "demo", raised |-> FALSE,
                      analysis |-> StructuredData(final_output)]
    /\ Yield("s1", << create_status_message("Report Generation", "completed", "Your analysis report is ready!", 0),
                      Terminal(Body("structured_data", "", EmptyStr, "", TRUE,
                                    StructuredData(final_output), NoFriendly, "")) >>)
    /\ UNCHANGED << analysis_sessions, pc, variant, calls, tools_done, decision, model_json,
                    analysis_dict, friendly_reply, guardrail_result, raised,
                    final_output, upload, tmp_files, history >>

NextNormalize == NormalizeEnhanced \/ NormalizeDemo

SpecNormalize == InitNormalize /\ [][NextNormalize]_vars

\* an output guardrail is about to be called: on a FinalOutput (summary,
\* verdict and disclaimer of lengths on both sides of the thresholds, risks
\* a list or None) or on a FriendlyMessage
InitGuardrails ==
    /\ analysis_sessions = [s \in Requests |-> NoRecord]
    /\ pc = [r \in Requests |-> "off"]
    /\ variant = [r \in Requests |-> ""]
    /\ stream = [r \in Requests |-> << >>]
    /\ calls = [r \in Requests |-> [a \in Agents |-> 0]]
    /\ tools_done = [r \in Requests |-> {}]
    /\ decision = [r \in Requests |-> ""]
    /\ model_json = [r \in Requests |-> NoJson]
    /\ analysis_dict = [r \in Requests |-> NoAnalysis]
    /\ raised = [r \in Requests |-> NoRaise]
    /\ guardrail_result = [r \in Requests |-> NoVerdict]
    /\ history = << >>
    /\ Uploaded({})
    /\ normalized = NotNormalized
    /\ final_output \in
           { [kind |-> "model", keys |-> ResultKeys, summary |-> s,
              risks |-> [kind |-> k, items |-> << >>], verdict |-> v, disclaimer |-> d] :
               s \in {EmptyStr, ShortSummary, Txt("summary of 11", 13, 11), GoodSummary},
               k \in {"none", "list"},
               v \in {EmptyStr, ShortVerdict, GoodVerdict},
               d \in {EmptyStr, ShortDisclaimer, GivenDisclaimer, DefaultDisclaimer} }
    /\ friendly_reply \in
           { [r \in Requests |-> IF r = "s1" THEN [called |-> FALSE, reply |-> Reply(m)]
                                 ELSE NoReply] :
               m \in { FriendlyMessage(EmptyStr, FALSE),
                       FriendlyMessage(Txt("   ", 3, 0), FALSE),
                       FriendlyMessage(Txt("Hi", 2, 2), FALSE),
                       FriendlyMessage(Txt("Hello", 5, 5), FALSE),
                       FriendlyMessage(Txt("Hello!", 6, 6), FALSE),
                       FriendlyMessage(Txt("1999 characters", MaxMessageLen - 1, MaxMessageLen - 1), FALSE),
                       FriendlyMessage(Txt("2000 characters", MaxMessageLen, MaxMessageLen), FALSE),
                       FriendlyMessage(Txt("Sorry, I cannot help with that", 30, 30), TRUE) } }

\* what an output guardrail returns
GuardrailFunctionOutput(guardrail, tripwire_triggered) ==
    [guardrail |-> guardrail, tripwire_triggered |-> tripwire_triggered]

\* final_output_validation_guardrail(ctx, agent, final_output) returns
ValidateFinalOutput ==
    /\ guardrail_result["s1"] = NoVerdict
    /\ guardrail_result' = [guardrail_result EXCEPT !["s1"] =
           GuardrailFunctionOutput("final_output_validation_guardrail",
                                   final_output_validation_guardrail(final_output))]
    /\ UNCHANGED << analysis_sessions, pc, variant, stream, calls, tools_done, decision,
                    model_json, analysis_dict, friendly_reply, raised,
                    final_output, normalized, upload, tmp_files, history >>

\* friendly_message_validation_guardrail(ctx, agent, output) returns
ValidateFriendlyMessage ==
    /\ guardrail_result["s1"] = NoVerdict
    /\ guardrail_result' = [guardrail_result EXCEPT !["s1"] =
           GuardrailFunctionOutput("friendly_message_validation_guardrail",
                                   friendly_message_validation_guardrail(
                                       friendly_reply["s1"].reply.value))]
    /\ UNCHANGED << analysis_sessions, pc, variant, stream, calls, tools_done, decision,
                    model_json, analysis_dict, friendly_reply, raised,
                    final_output, normalized, upload, tmp_files, history >>

NextGuardrails == ValidateFinalOutput \/ ValidateFriendlyMessage

SpecGuardrails == InitGuardrails /\ [][NextGuardrails]_vars

\* ------------------------------------------------------------------------
\* The copies of the pipelines in processing_pipeline.py
\* ------------------------------------------------------------------------

\* final_message of the else branch of processing_pipeline.run_demo_pipeline:
\* the lines of the triple-quoted literal after the first are indented with
\* the code, so the text holds twelve blanks before each of them
UndeterminedMessageDemoCopy ==
    Txt("I couldn't identify this as a legal document. ... (lines indented by 12 blanks)", 351, 351)

\* the stream processing_pipeline's copy of the request's pipeline yields on
\* the capability outcomes of request r: the two copies of each pipeline are
\* the same statements but for the literal of the demo's else branch
CopyStream(r) ==
    [i \in DOMAIN stream[r] |->
        IF variant[r] = "demo" /\ stream[r][i] = FinalMessage(UndeterminedMessageDemo)
        THEN FinalMessage(UndeterminedMessageDemoCopy)
        ELSE stream[r][i]]

\* ------------------------------------------------------------------------
\* Properties
\* ------------------------------------------------------------------------

Finals(r) == { i \in DOMAIN stream[r] : stream[r][i].kind = "final" }

Dones(r) == { i \in DOMAIN stream[r] : stream[r][i].kind = "done" }

FailedEvents(r) ==
    { i \in DOMAIN stream[r] :
        stream[r][i].kind = "progress" /\ stream[r][i].status = "failed" }

\* the terminal payloads that carry an analysis (structured_data, legal_analysis)
AnalysisFinals(r) == { i \in Finals(r) : stream[r][i].body.has_analysis }

WellFormedRisk(risk) == risk.fields = RiskFields /\ risk.level \in Severities

\* the render call raised: the invocation failed or its output guardrail tripped
RenderFailed(reply) == ~reply.ok \/ friendly_message_validation_guardrail(reply.value)

\* C1: in every run of either pipeline, whatever the capability calls come
\* back with, the stream holds at most one terminal payload and at most one
\* [DONE]; [DONE] is the last event and directly follows the terminal payload;
\* a payload that is last is about to be followed by [DONE]; a finished
\* stream holds exactly one of each.
C1_TerminalThenDone ==
    \A r \in Requests :
        LET s == stream[r]
        IN /\ Cardinality(Finals(r)) <= 1
           /\ Cardinality(Dones(r)) <= 1
           /\ \A i \in Dones(r) : i = Len(s) /\ i > 1 /\ s[i - 1].kind = "final"
           /\ \A i \in Finals(r) :
                  IF i = Len(s) THEN pc[r] = "sentinel" ELSE s[i + 1].kind = "done"
           /\ pc[r] = "sentinel" => Finals(r) = {Len(s)}
           /\ pc[r] = "done" => Finals(r) = {Len(s) - 1} /\ Dones(r) = {Len(s)}

C1_Witness ==
    \E r \in Requests :
        /\ pc[r] = "done"
        /\ variant[r] = "enhanced"
        /\ raised[r].exc = "OutputGuardrailTripwireTriggered"

\* C2: once the input guardrail has judged the request's text unsafe, the
\* guardrail check is the only capability the request has invoked or will
\* invoke: the classifier, the analysis agent and its tools, the casual-chat
\* agent and the friendly agent have not run.
C2_OnlyGuardrailInvoked ==
    \A r \in Requests :
        guardrail_result[r].contains_sensitive_info =>
            /\ \A a \in Agents \ {"sensitive_check_agent"} : calls[r][a] = 0
            /\ tools_done[r] = {}

\* C3: when the analysis agent's output guardrail trips during POST /analyze,
\* the finished stream holds a failed progress event, its terminal payload
\* carries the validation-failure message, and the session record has status
\* failed.
C3_OutputTripwireMarksFailed ==
    \A r \in Requests :
        ( /\ variant[r] = "enhanced"
          /\ pc[r] = "done"
          /\ raised[r] = [exc |-> "OutputGuardrailTripwireTriggered", at |-> "analysis_agent"] )
        => /\ FailedEvents(r) # {}
           /\ \A i \in Finals(r) : stream[r][i].body.message = OutputTripwireMessageDemo
           /\ analysis_sessions[r].present => analysis_sessions[r].status = "failed"

\* C4: when [DONE] has been yielded by the enhanced pipeline, the request's
\* session record, if still present, has status completed or failed.
C4_TerminalSessionStatus ==
    \A r \in Requests :
        ( variant[r] = "enhanced" /\ pc[r] = "done" /\ analysis_sessions[r].present )
        => analysis_sessions[r].status \in {"completed", "failed"}

\* C5: a terminal payload that carries an analysis is yielded only when
\* summarize_document, detect_risks and check_clause have all produced an
\* output in that request.
C5_AllToolsBeforeResult ==
    \A r \in Requests : AnalysisFinals(r) # {} => tools_done[r] = AnalysisTools

\* C6: normalisation never raises, and every analysis it yields, in the demo
\* and in the enhanced pipeline, has a list of well-formed risk items (the
\* five RiskItem fields, a severity of the closed set) and a non-empty
\* disclaimer.
C6_NormalizationTotal ==
    normalized.by # "" =>
        /\ ~normalized.raised
        /\ \A k \in DOMAIN normalized.analysis.risks :
               WellFormedRisk(normalized.analysis.risks[k])
        /\ Truthy(normalized.analysis.disclaimer)

\* C7: every normalised risk item has a severity of {low, medium, high,
\* critical}; a level that is absent or not recognised, "unknown" included,
\* has become low.
C7_ClosedSeverity ==
    \A r \in Requests :
        \A i \in AnalysisFinals(r) :
            LET risks == stream[r][i].body.analysis.risks
                raw == model_json[r].risks.items
            IN \A k \in DOMAIN risks :
                   /\ risks[k].level \in Severities
                   /\ Lower(raw[k].level) \notin Severities => risks[k].level = "low"

\* C8: the disclaimer of every analysis yielded to the client and of every
\* result stored in a session record is non-empty, and it is the fixed
\* default text when the analysis model left the disclaimer out.
C8_DisclaimerNonEmpty ==
    \A r \in Requests :
        /\ \A i \in AnalysisFinals(r) :
               LET disclaimer == stream[r][i].body.analysis.disclaimer
               IN /\ Truthy(disclaimer)
                  /\ ~model_json[r].has_disclaimer => disclaimer = DefaultDisclaimer
        /\ analysis_sessions[r].has_result =>
               LET disclaimer == analysis_sessions[r].result.analysis.disclaimer
               IN /\ Truthy(disclaimer)
                  /\ ~model_json[r].has_disclaimer => disclaimer = DefaultDisclaimer

C8_Witness ==
    \E r \in Requests :
        /\ AnalysisFinals(r) # {}
        /\ analysis_sessions[r].has_result
        /\ ~model_json[r].has_disclaimer

\* C9: on the analyze path of the enhanced pipeline, when the render call has
\* failed (invocation failure or output guardrail), the finished request has
\* yielded no failed progress event, has yielded a legal_analysis
\* final_result, and its session record (while stored) has status completed.
C9_RenderFailureHarmless ==
    \A r \in Requests :
        ( /\ variant[r] = "enhanced"
          /\ pc[r] = "done"
          /\ friendly_reply[r].called
          /\ RenderFailed(friendly_reply[r].reply) )
        => /\ FailedEvents(r) = {}
           /\ \E i \in Finals(r) : stream[r][i].body.type = "legal_analysis"
           /\ analysis_sessions[r].present => analysis_sessions[r].status = "completed"

\* C10: the friendly_message of a legal_analysis final_result is the render
\* call's message, unchanged, when the call returned one of at least 20
\* stripped characters; otherwise (the call failed, or the message is empty
\* or shorter) it is the fallback built from the first 200 characters of the
\* summary, or the fixed generic sentence when the summary is empty.
C10_FriendlyFallback ==
    \A r \in Requests :
        \A i \in Finals(r) :
            stream[r][i].body.type = "legal_analysis" =>
                LET reply == friendly_reply[r].reply
                    message == reply.value.message
                    summary == analysis_dict[r].summary
                    friendly == stream[r][i].body.friendly_message
                IN /\ friendly_reply[r].called
                   /\ IF ~RenderFailed(reply) /\ message.len > 0 /\ message.strip >= 20
                      THEN friendly.id = message.id /\ friendly.of = message
                      ELSE IF summary.len > 0
                      THEN /\ friendly.id = "Analysis complete. {summary[:200]}..."
                           /\ friendly.of.id = summary.id
                           /\ friendly.of.len = Min(summary.len, 200)
                           /\ friendly.of.cut = (summary.len > 200)
                      ELSE friendly.id = GenericFriendlyMessage.id

C10_Witness ==
    \E r \in Requests :
        \E i \in Finals(r) :
            /\ stream[r][i].body.type = "legal_analysis"
            /\ RenderFailed(friendly_reply[r].reply)
            /\ stream[r][i].body.friendly_message.of.cut

\* C11: once a request has been aborted by a failure (an input tripwire, an
\* output tripwire or an exception of a capability call), its stream holds
\* exactly one failed progress event, the terminal payload directly follows
\* it, no progress event comes after it, [DONE] ends the finished stream, and
\* from then on the request invokes no agent and no tool.
C11_SingleFailedEvent ==
    /\ [](\A r \in Requests :
             raised[r].exc # "" =>
                 LET s == stream[r]
                 IN /\ Cardinality(FailedEvents(r)) = 1
                    /\ \A i \in FailedEvents(r) :
                           /\ i < Len(s)
                           /\ s[i + 1].kind = "final"
                           /\ \A j \in (i + 1)..Len(s) : s[j].kind # "progress"
                           /\ pc[r] = "done" => i = Len(s) - 2 /\ s[Len(s)].kind = "done"
                    /\ pc[r] \in {"sentinel", "done"})
    /\ [][\A r \in Requests :
             raised[r].exc # "" => calls'[r] = calls[r] /\ tools_done'[r] = tools_done[r]]_vars

C11_Witness ==
    \E r \in Requests :
        /\ variant[r] = "demo"
        /\ raised[r] = [exc |-> "Exception", at |-> "analysis_agent"]
        /\ pc[r] = "done"

\* C12: when every capability call returns or raises, every stream that has
\* started eventually yields [DONE], from whichever await it is suspended at.
C12_EventuallyDone ==
    \A r \in Requests : (pc[r] \notin {"off", "idle"}) ~> (pc[r] = "done")

C12_Witness ==
    \E r \in Requests :
        /\ pc[r] = "done"
        /\ calls[r]["friendly_agent"] = 1
        /\ stream[r][Len(stream[r])].kind = "done"

\* what the client reads of a request's stream, the session id left out
Visible(r) == [i \in DOMAIN stream[r] |-> [stream[r][i] EXCEPT !.body.session_id = ""]]

\* C13: two finished requests of the same pipeline that were both stopped by
\* the input tripwire at the same guardrail, whatever the reasoning of the
\* guardrail's verdicts, have delivered the same events to their clients
\* (session ids apart).
C13_TripwireMessageFixed ==
    \A r1, r2 \in Requests :
        ( /\ pc[r1] = "done" /\ pc[r2] = "done"
          /\ variant[r1] = variant[r2]
          /\ raised[r1].exc = "InputGuardrailTripwireTriggered"
          /\ raised[r2] = raised[r1] )
        => Visible(r1) = Visible(r2)

\* C14: an upload whose extracted text is None, empty or shorter than 10
\* characters after stripping is answered with 400, and its request has then
\* invoked no agent and no tool, yielded no event and has no session record.
C14_MeaninglessTextRejected ==
    \A r \in Requests :
        LET u == upload[r]
        IN ( /\ u.at = "answered"
             /\ u.filename # "" /\ FileExt(u.filename) \in ALL_SUPPORTED_EXTS
             /\ u.size <= 10485760
             /\ u.written /\ u.extracted.ok
             /\ (u.extracted.value.len = 0 \/ u.extracted.value.strip < 10) )
           => /\ u.status = 400
              /\ pc[r] = "off"
              /\ stream[r] = << >>
              /\ \A a \in Agents : calls[r][a] = 0
              /\ tools_done[r] = {}
              /\ ~analysis_sessions[r].present

C14_Witness ==
    \E r \in Requests :
        /\ upload[r].at = "answered"
        /\ upload[r].handler = "analyze_document"
        /\ upload[r].extracted.ok /\ upload[r].extracted.value.strip = 9
        /\ upload[r].status = 400

\* C15: the status an upload is answered with is that of the first check it
\* fails, in the order filename, extension, size, extraction: 400 for a
\* missing filename or an unsupported extension, 413 for more than
\* 10*1024*1024 bytes (exactly that many are accepted), 500 for an exception
\* while the file is written or extracted, 400 for a text that is not
\* meaningful; a pipeline has started only for an upload answered with 200.
C15_ValidationOrder ==
    \A r \in Requests :
        LET u == upload[r]
        IN /\ u.at = "answered" =>
                  u.status =
                      CASE u.filename = "" -> 400
                        [] u.filename # "" /\ FileExt(u.filename) \notin ALL_SUPPORTED_EXTS -> 400
                        [] OTHER ->
                             IF u.size > 10485760 THEN 413
                             ELSE IF ~u.written \/ ~u.extracted.ok THEN 500
                             ELSE IF u.extracted.value.len = 0 \/ u.extracted.value.strip < 10
                             THEN 400
                             ELSE 200
           /\ (pc[r] # "off" \/ stream[r] # << >>) => u.at = "answered" /\ u.status = 200

C15_Witness ==
    \E r \in Requests :
        /\ upload[r].at = "answered"
        /\ upload[r].size = 10485760
        /\ upload[r].status = 200
        /\ pc[r] = "done"

\* C16: once an upload handler has returned or raised, no temporary file of
\* its request is left on disk.
C16_TempFileReleased ==
    \A r \in Requests : upload[r].at = "answered" => r \notin tmp_files

\* C17: a GET of a session changes no record of the store, and two GETs of
\* the same id that found the same record gave the same response.
C17_GetIdempotent ==
    /\ [](\A i, j \in DOMAIN history :
             ( /\ history[i].op = "GET" /\ history[j].op = "GET"
               /\ history[i].id = history[j].id
               /\ history[i].before = history[j].before )
             => history[i].status = history[j].status /\ history[i].body = history[j].body)
    /\ [][(Len(history') = Len(history) + 1 /\ history'[Len(history')].op = "GET")
             => analysis_sessions' = analysis_sessions]_vars

C17_Witness ==
    /\ Len(history) = 2
    /\ \A i \in 1..2 :
           /\ history[i].op = "GET" /\ history[i].id = "s1"
           /\ history[i].status = 200 /\ history[i].body.status = "completed"

C19_NoAutomaticDeletion ==
    [][\A s \in Requests :
           (analysis_sessions[s].present /\ ~analysis_sessions'[s].present)
           => delete_session(s)]_vars

C19_Witness ==
    \E r \in Requests :
        /\ pc[r] = "done"
        /\ analysis_sessions[r].present
        /\ analysis_sessions[r].status = "completed"

\* C20: in a request the classifier answered with casual_chat, the analysis
\* agent, its tools and the friendly agent are never run and the casual-chat
\* agent is run once; no terminal payload of the request has an analysis
\* section or a risk item, and when the call succeeded the payload is the
\* casual-chat message.
C20_CasualChatOnly ==
    \A r \in Requests :
        decision[r] = "casual_chat" =>
            /\ calls[r]["casual_chat_agent"] = 1
            /\ calls[r]["analysis_agent"] = 0
            /\ calls[r]["friendly_agent"] = 0
            /\ tools_done[r] = {}
            /\ \A i \in Finals(r) :
                   LET body == stream[r][i].body
                   IN /\ ~body.has_analysis
                      /\ body.analysis.risks = << >>
                      /\ body.risk_count = 0
                      /\ raised[r].exc = "" =>
                             /\ body.message.id \in {"chat"}
                             /\ IF variant[r] = "enhanced"
                                THEN body.key = "final_result" /\ body.type = "casual_response"
                                ELSE body.key = "final_message"

C20_Witness ==
    \E r \in Requests :
        /\ decision[r] = "casual_chat"
        /\ pc[r] = "done"
        /\ raised[r].exc = ""
        /\ variant[r] = "enhanced"

\* C21: with two requests interleaved on the event loop, at every point
\* where another task can run a stored record is either "processing" without
\* a result or "completed" with its result, the result being the payload of
\* the request that owns the key; and a request whose analyze branch ran to
\* its end without an exception, and whose record was not deleted, has its
\* record completed, whatever the other request did in between.
C21_AtomicSessionUpdate ==
    \A s \in Requests :
        /\ analysis_sessions[s].present =>
             /\ analysis_sessions[s].status \in {"processing", "completed"}
             /\ analysis_sessions[s].status = "completed" <=> analysis_sessions[s].has_result
             /\ analysis_sessions[s].has_result =>
                  /\ analysis_sessions[s].result.session_id = s
                  /\ analysis_sessions[s].result.analysis = analysis_dict[s]
                  /\ \A i \in Finals(s) : stream[s][i].body = analysis_sessions[s].result
        /\ ( /\ analysis_sessions[s].present
             /\ friendly_reply[s].called
             /\ raised[s] = NoRaise )
           => analysis_sessions[s].status = "completed"

\* both requests have completed their records, the second while the first
\* one's record was already complete
C21_Witness ==
    /\ \A s \in Requests :
         /\ analysis_sessions[s].status = "completed"
         /\ analysis_sessions[s].has_result
    /\ pc["s1"] = "done"
    /\ pc["s2"] = "sentinel"

\* what request r's generator holds: its position, its locals, its stream
Locals(r) ==
    << pc[r], variant[r], stream[r], calls[r], tools_done[r], decision[r], model_json[r],
       analysis_dict[r], friendly_reply[r], guardrail_result[r], raised[r] >>

\* C22: with two requests interleaved, every step that creates or updates
\* the record of a session id is a step of the generator of the request with
\* that id, and it leaves the other request's generator and the other record
\* alone; a record is created for a request that had none and is updated in
\* place; the only other change of a record is its removal by a DELETE of
\* that id, which moves no generator.
C22_SingleWriterPerKey ==
    [][\A s \in Requests :
          analysis_sessions'[s] # analysis_sessions[s] =>
              /\ \A t \in Requests \ {s} :
                   /\ Locals(t)' = Locals(t)
                   /\ analysis_sessions'[t] = analysis_sessions[t]
              /\ \/ /\ pc[s] = "idle" /\ pc'[s] = "main_guardrail"
                    /\ ~analysis_sessions[s].present
                    /\ analysis_sessions'[s] = Record("processing", FALSE, NoBody)
                 \/ /\ pc[s] = "friendly_agent" /\ pc'[s] = "sentinel"
                    /\ analysis_sessions[s].present
                    /\ analysis_sessions'[s].status = "completed"
                    /\ analysis_sessions'[s].result.session_id = s
                 \/ /\ Locals(s)' = Locals(s)
                    /\ analysis_sessions'[s] = NoRecord]_vars

\* each request has created its own record, and the first has updated its
\* record while the second was suspended in a capability call
C22_Witness ==
    /\ analysis_sessions["s1"].status = "completed"
    /\ analysis_sessions["s1"].result.session_id = "s1"
    /\ analysis_sessions["s2"].status = "processing"
    /\ pc["s2"] = "analysis_agent"

\* the stream and the session record of request r as its generator produces
\* them from r's own capability outcomes alone (the verdict of the input
\* guardrail, the decision, the analysis JSON, the render reply, the
\* exception raised), read off the code path by path
RunAlone(r) ==
    LET v == variant[r]
        E0 == ReceivedEvents(v)
        E1 == E0 \o DecisionEvents(v, decision[r])
        E2 == E1 \o AnalysisEvents(v)
        info == IF raised[r].exc = "InputGuardrailTripwireTriggered"
                THEN guardrail_result[r].reasoning ELSE ""
        before == CASE raised[r].at \in {"main_guardrail", "main_agent"} -> E0
                    [] raised[r].at \in {"analysis_guardrail", "casual_chat_agent"} -> E1
                    [] raised[r].at = "analysis_agent" ->
                           IF raised[r].exc = "Exception" /\ model_json[r] # NoJson THEN E2 ELSE E1
                    [] OTHER -> E2
        friendly == FriendlyFallback(FriendlyMessageOf(friendly_reply[r].reply),
                                     analysis_dict[r].summary)
        final_result == LegalAnalysisResult(analysis_dict[r], friendly, r)
        ended ==
            IF raised[r] # NoRaise
            THEN { before \o Handler(v, raised[r].exc, info, r) }
            ELSE CASE decision[r] = "analyze_document" /\ v = "demo" ->
                        { E2 \o << create_status_message("Report Generation", "completed", "Your analysis report is ready!", 0),
                                   Terminal(Body("structured_data", "", EmptyStr, "", TRUE,
                                                 StructuredData(FinalOutput(model_json[r])),
                                                 NoFriendly, "")) >> }
                   [] decision[r] = "analyze_document" /\ v = "enhanced" ->
                        { E2 \o << create_status_message("Report Ready", "completed", "Your legal analysis report is ready!", 100),
                                   Terminal(final_result) >> }
                   [] decision[r] = "casual_chat" ->
                        { E1 \o CasualResult(v, reply.value.message, r) :
                            reply \in { c \in CasualReplies :
                                          c.ok /\ ~friendly_message_validation_guardrail(c.value) } }
                   [] OTHER -> { E1 \o << UndeterminedResult(v, r) >> }
        streams ==
            CASE pc[r] \in {"off", "idle"} -> { << >> }
              [] pc[r] \in {"main_guardrail", "main_agent"} -> { E0 }
              [] pc[r] \in {"analysis_guardrail", "analysis_agent", "casual_chat_agent"} -> { E1 }
              [] pc[r] = "friendly_agent" -> { E2 }
              [] pc[r] = "sentinel" -> ended
              [] OTHER -> { e \o << Done >> : e \in ended }
        record ==
            IF v = "enhanced" /\ friendly_reply[r].called /\ raised[r] = NoRaise
            THEN Completed(Record("processing", FALSE, NoBody), final_result)
            ELSE IF v = "enhanced" THEN Record("processing", FALSE, NoBody)
            ELSE NoRecord
    IN [streams |-> streams, record |-> record]

\* C23: in every interleaving of two requests, each request's event
\* sequence and its session record (where it has not been deleted) are the
\* ones its own generator produces from its own capability outcomes: they
\* do not depend on the other request's position, outcomes, events or
\* record, so they are those of the request run alone.
C23_RequestsIndependent ==
    \A r \in Requests :
        LET alone == RunAlone(r)
        IN /\ stream[r] \in alone.streams
           /\ analysis_sessions[r].present => analysis_sessions[r] = alone.record

\* two requests of the enhanced pipeline have run interleaved to the end,
\* one through the analyze branch and one through casual chat
C23_Witness ==
    /\ pc["s1"] = "done" /\ pc["s2"] = "done"
    /\ variant["s1"] = "enhanced" /\ variant["s2"] = "enhanced"
    /\ decision["s1"] = "analyze_document" /\ raised["s1"] = NoRaise
    /\ decision["s2"] = "casual_chat" /\ raised["s2"] = NoRaise
    /\ analysis_sessions["s1"].status = "completed"
    /\ analysis_sessions["s2"].status = "processing"

\* C24: in a stream of the enhanced pipeline the progress values of the
\* progress events never decrease from one progress event to a later one,
\* the failed events of an aborted run included.
C24_ProgressMonotone ==
    \A r \in Requests :
        variant[r] = "enhanced" =>
            \A i, j \in DOMAIN stream[r] :
                ( /\ i < j
                  /\ stream[r][i].kind = "progress"
                  /\ stream[r][j].kind = "progress" )
                => stream[r][i].progress <= stream[r][j].progress

\* C25: a finished stream opens with the received, extracted and
\* classifying events in that order; every progress event with status
\* "processing" is followed, later in the stream, by the "completed" event
\* of the same step or by a "failed" event; and no step is announced as
\* processing after its own completed event.
C25_StageOrder ==
    \A r \in Requests :
        pc[r] = "done" =>
            /\ Len(stream[r]) >= 3
            /\ \A i \in 1..3 : stream[r][i] = ReceivedEvents(variant[r])[i]
            /\ \A i \in DOMAIN stream[r] :
                 (stream[r][i].kind = "progress" /\ stream[r][i].status = "processing") =>
                     /\ \E j \in DOMAIN stream[r] :
                          /\ j > i
                          /\ stream[r][j].kind = "progress"
                          /\ \/ stream[r][j].status = "failed"
                             \/ /\ stream[r][j].status = "completed"
                                /\ stream[r][j].step = stream[r][i].step
                     /\ \A j \in 1..(i - 1) :
                          ~(stream[r][j].status = "completed"
                            /\ stream[r][j].step = stream[r][i].step)

C27_RoutedOnce ==
    /\ [](\A r \in Requests :
            /\ calls[r]["main_agent"] <= 1
            /\ ~(calls[r]["analysis_agent"] >= 1 /\ calls[r]["casual_chat_agent"] >= 1)
            /\ decision[r] # "" =>
                 /\ calls[r]["main_agent"] = 1
                 /\ calls[r]["sensitive_check_agent"] =
                        (IF decision[r] = "analyze_document" THEN 2 ELSE 1)
                 /\ calls[r]["casual_chat_agent"] =
                        (IF decision[r] = "casual_chat" THEN 1 ELSE 0)
                 /\ decision[r] # "analyze_document" =>
                        calls[r]["analysis_agent"] = 0 /\ calls[r]["friendly_agent"] = 0)
    /\ [][\A r \in Requests : decision[r] # "" => decision'[r] = decision[r]]_vars

\* a request routed to the analyze branch has finished it, the casual-chat
\* agent never run
C27_Witness ==
    /\ pc["s1"] = "done"
    /\ decision["s1"] = "analyze_document"
    /\ calls["s1"]["main_agent"] = 1
    /\ calls["s1"]["analysis_agent"] = 1
    /\ calls["s1"]["casual_chat_agent"] = 0

C29_FinalOutputGuardrail ==
    (guardrail_result["s1"] # NoVerdict
       /\ guardrail_result["s1"].guardrail = "final_output_validation_guardrail")
    => ( ~guardrail_result["s1"].tripwire_triggered
         <=> /\ final_output.summary.strip > 10
             /\ final_output.risks.kind = "list"
             /\ final_output.verdict.strip > 5
             /\ final_output.disclaimer.strip > 10 )

\* the guardrail has passed an output whose summary, verdict and disclaimer
\* are each one character over their thresholds
C29_Witness ==
    /\ guardrail_result["s1"] =
           GuardrailFunctionOutput("final_output_validation_guardrail", FALSE)
    /\ final_output.summary.strip = 11
    /\ final_output.verdict.strip = 6
    /\ final_output.disclaimer.strip = 11
    /\ final_output.risks.kind = "list"

\* C30: friendly_message_validation_guardrail leaves tripwire_triggered
\* false exactly when the message is non-empty, shorter than 2000 characters
\* and holds no refusal phrase; so every non-empty message under 2000
\* characters without a refusal phrase passes.
C30_FriendlyMessageGuardrail ==
    (guardrail_result["s1"] # NoVerdict
       /\ guardrail_result["s1"].guardrail = "friendly_message_validation_guardrail")
    => ( ~guardrail_result["s1"].tripwire_triggered
         <=> /\ friendly_reply["s1"].reply.value.message.len > 0
             /\ friendly_reply["s1"].reply.value.message.len < 2000
             /\ ~friendly_reply["s1"].reply.value.refusal )

\* C31: a stream holds a "failed" progress event only if an input or output
\* guardrail tripped in that run; a capability call that fails for another
\* reason (the classifier, the analysis agent or the casual-chat agent
\* raises) does not end the request with a "failed" event.
C31_OnlyTripwiresAbort ==
    \A r \in Requests :
        FailedEvents(r) # {} =>
            raised[r].exc \in {"InputGuardrailTripwireTriggered",
                               "OutputGuardrailTripwireTriggered"}

C33_RiskCoercionKeepsContent ==
    (normalized.by # "" /\ ~normalized.raised) =>
        LET raw == IF normalized.by = "enhanced"
                   THEN Get(AnalysisDict(final_output), "risks", EmptyList)
                   ELSE Get(AnalysisDictDemo(final_output), "risks", EmptyList)
            items == normalized.analysis.risks
        IN raw.kind = "list" =>
             /\ Len(items) = Len(raw.items)
             /\ \A i \in DOMAIN raw.items :
                  /\ \A f \in raw.items[i].keys \ {"level"} : items[i][f] = raw.items[i][f]
                  /\ "level" \in raw.items[i].keys => items[i].level = Lower(raw.items[i].level)
                  /\ raw.items[i].kind = "str" => items[i].description = raw.items[i].description

\* C34: a finished request of the enhanced pipeline whose capability calls
\* all succeeded (both guardrail evaluations passed, the classifier chose
\* analyze_document, the analysis output was valid, the render call returned
\* a message its guardrail accepted) has yielded the Report Ready event and
\* a final_result of type legal_analysis and no failed event, whatever GET
\* and DELETE calls of its session were served in between.
C34_UnaffectedBySessionCalls ==
    \A r \in Requests :
        ( /\ pc[r] = "done"
          /\ variant[r] = "enhanced"
          /\ decision[r] = "analyze_document"
          /\ calls[r]["sensitive_check_agent"] = 2
          /\ ~guardrail_result[r].contains_sensitive_info
          /\ friendly_reply[r].called
          /\ friendly_reply[r].reply.ok
          /\ ~friendly_reply[r].reply.value.refusal
          /\ friendly_reply[r].reply.value.message.strip > 5 )
        => /\ FailedEvents(r) = {}
           /\ \E i \in DOMAIN stream[r] :
                stream[r][i].step = "Report Ready" /\ stream[r][i].status = "completed"
           /\ \E i \in Finals(r) : stream[r][i].body.type = "legal_analysis"

\* C35: a request whose stream holds the completed event of the
\* classification step is never ended by an input-guardrail tripwire: the
\* input guardrail can stop a request only before the classifier has run.
C35_InputGuardrailDecidesOnce ==
    \A r \in Requests :
        (\E i \in DOMAIN stream[r] :
            /\ stream[r][i].step \in {"Document Classification", "Document Analysis"}
            /\ stream[r][i].status = "completed")
        => raised[r].exc # "InputGuardrailTripwireTriggered"

\* C36: the step in which a request of the enhanced pipeline yields its
\* first progress event leaves its record stored with status "processing";
\* a stored record's status changes only from "processing" to "completed";
\* a completed record is not changed while it is stored; and the result of
\* a completed record names the key the record is stored under.
C36_StatusMovesForward ==
    /\ [](\A s \in Requests :
            (analysis_sessions[s].present /\ analysis_sessions[s].status = "completed")
            => analysis_sessions[s].result.session_id = s)
    /\ [][\A s \in Requests :
            /\ (stream[s] = << >> /\ stream'[s] # << >> /\ variant'[s] = "enhanced")
               => analysis_sessions'[s] = Record("processing", FALSE, NoBody)
            /\ (analysis_sessions[s].present /\ analysis_sessions'[s].present
                  /\ analysis_sessions'[s].status # analysis_sessions[s].status)
               => /\ analysis_sessions[s].status = "processing"
                  /\ analysis_sessions'[s].status = "completed"
            /\ (analysis_sessions[s].status = "completed" /\ analysis_sessions'[s].present)
               => analysis_sessions'[s] = analysis_sessions[s]]_vars

\* a record has gone from processing to completed and its request has ended
C36_Witness ==
    /\ analysis_sessions["s1"].status = "completed"
    /\ analysis_sessions["s1"].result.session_id = "s1"
    /\ analysis_sessions["s1"].result.type = "legal_analysis"
    /\ pc["s1"] = "done"
    /\ stream["s1"][1].step = "Document Received"

\* C37: a request whose stream holds the AI Analysis completed event, the
\* Report Ready event or a terminal payload with an analysis, or whose
\* session record holds a result, has an analysis output with a summary of
\* more than 10, a verdict of more than 5 and a disclaimer of more than 10
\* characters after stripping, and risks that are a list.
C37_OnlyValidatedAnalysis ==
    \A r \in Requests :
        ( \/ \E i \in DOMAIN stream[r] :
                /\ stream[r][i].status = "completed"
                /\ stream[r][i].step \in {"AI Analysis", "Report Ready", "Report Generation"}
          \/ AnalysisFinals(r) # {}
          \/ analysis_sessions[r].has_result )
        => /\ model_json[r] # NoJson
           /\ FinalOutput(model_json[r]).summary.strip > 10
           /\ FinalOutput(model_json[r]).verdict.strip > 5
           /\ FinalOutput(model_json[r]).disclaimer.strip > 10
           /\ FinalOutput(model_json[r]).risks.kind = "list"

\* a validated analysis has reached the client and the session store
C37_Witness ==
    /\ \E i \in Finals("s1") : stream["s1"][i].body.type = "legal_analysis"
    /\ analysis_sessions["s1"].has_result
    /\ FinalOutput(model_json["s1"]).summary.strip > 10
    /\ Len(model_json["s1"].risks.items) = MaxRisks

\* C38: every step of a request of the demo pipeline, on every path, leaves
\* the session store as it was: no record is added, changed or removed, the
\* records of a request running beside it included; and no record is stored
\* under the session id of a demo request, so that a GET of that id finds
\* none.
C38_DemoLeavesStoreAlone ==
    /\ [](\A r \in Requests : upload[r].handler = "demo_analysis"
                                 => ~analysis_sessions[r].present)
    /\ [][\A r \in Requests :
            (variant'[r] = "demo" /\ Locals(r)' # Locals(r))
            => analysis_sessions' = analysis_sessions]_vars

\* a demo request has run to its end beside a request of the enhanced
\* pipeline whose record is stored
C38_Witness ==
    /\ variant["s2"] = "demo"
    /\ pc["s2"] = "done"
    /\ decision["s2"] = "analyze_document"
    /\ ~analysis_sessions["s2"].present
    /\ variant["s1"] = "enhanced"
    /\ analysis_sessions["s1"].status = "completed"

\* C39: on the same input and the same capability outcomes the copy of a
\* pipeline in processing_pipeline.py yields the events and the terminal
\* payload that the pipeline of main.py yields.
C39_CopiesEquivalent ==
    \A r \in Requests : CopyStream(r) = stream[r]

\* C40: a PDF upload whose directly extracted text has at least 10
\* characters after stripping is answered with 200, and the text
\* load_text_from_path returned for it is not shorter than the directly
\* extracted text, whatever OCR gave (the empty string included).
C40_DirectPdfTextAccepted ==
    \A r \in Requests :
        ( /\ upload[r].at = "answered"
          /\ upload[r].status # 0
          /\ FileExt(upload[r].filename) = ".pdf"
          /\ upload[r].extracted.direct.strip >= 10 )
        => /\ upload[r].status = 200
           /\ upload[r].extracted.value.strip >= upload[r].extracted.direct.strip

====
